---- MODULE Spec2Model ----
(***************************************************************************)
(* A model of pico_i2c_slave: the per-core slave context registry and the  *)
(* interrupt dispatcher of i2c_slave.c, and the TwoWire buffering facade   *)
(* of Wire.h / Wire.cpp, together with the DW_apb_i2c conditions and the   *)
(* peer on the bus that drive them.                                        *)
(*                                                                         *)
(* Sequential C code is modelled by operators over a machine state `st`    *)
(* (a record of all program variables); an action applies one whole        *)
(* function call, or one whole interrupt service pass, to the current      *)
(* state.  A failed assertion aborts the process: it is recorded in        *)
(* `fault`, and nothing runs afterwards.                                   *)
(***************************************************************************)
EXTENDS Integers, Sequences, FiniteSets, TLC

(* ------------------------------ bounds --------------------------------- *)

\* Capacity of TwoWire::buf_ (Wire.h: an overridable macro, 32 by default).
WIRE_BUFFER_LENGTH == 2
\* Transfers the peer master starts on a slave's bus.
MaxTransfers == 2
\* Bytes the peer master writes in one transfer, and bytes it reads in one.
MaxXferBytes == 3
MaxXferReads == 1
\* Depth of the hardware receive FIFO, and of the transmit FIFO, explored.
RxDepth == 2
TxDepth == 1
\* How far a `count` / `size` argument goes beyond the capacity.
MaxExcess == 1
\* Transfers per instance, and bytes per transfer, under SpecRegistry.
RegTransfers == 1
RegBytes == 1

(* ----------------------------- constants ------------------------------- *)

NO_ADDRESS == 255
PICO_ERROR_GENERIC == -2
NULL == "NULL"

Cores == {0, 1}
Insts == {"i2c0", "i2c1"}

Unassigned == "Unassigned"
Master == "Master"
Slave == "Slave"

I2C_SLAVE_RECEIVE == "RECEIVE"
I2C_SLAVE_REQUEST == "REQUEST"
I2C_SLAVE_FINISH == "FINISH"

TX_ABRT == "TX_ABRT"
START_DET == "START_DET"
STOP_DET == "STOP_DET"
RX_FULL == "RX_FULL"
RD_REQ == "RD_REQ"

\* hw->intr_mask as written by i2c_slave_init
SlaveIntrMask == {RX_FULL, RD_REQ, TX_ABRT, STOP_DET, START_DET}
\* I2C_IC_INTR_MASK_RESET (0x8ff): STOP_DET (bit 9) and START_DET (bit 10) masked
I2C_IC_INTR_MASK_RESET == {RX_FULL, RD_REQ, TX_ABRT}

\* Byte values an application hands to write / a slave answers a read with.
AppBytes == {1, 2}
\* A byte the peer master writes: tagged with its transfer and its position.
BusByte(x, k) == 16 * x + k
XferOf(b) == b \div 16

\* The bytes the request handler answers with.
ReplyBytes == {9}

MIN(a, b) == IF a < b THEN a ELSE b

VARIABLES
    slave,      \* i2c_core0_slave / i2c_core1_slave, indexed by core
    irq,        \* per core: the I2C interrupt lines enabled, handler installed
    hw,         \* per instance: the DW_apb_i2c block as the slave code sees it
    bus,        \* per instance: the peer master's position in its transfers
    wire,       \* Wire (i2c0) and Wire1 (i2c1)
    wr,         \* an application-context slave-mode write in progress
    fault,      \* the failed assertion, or "none"
    delivered,  \* per core: the last event its handler was given since the bind
    last        \* what the last operation was given, found and returned

vars == <<slave, irq, hw, bus, wire, wr, fault, delivered, last>>

(* --------------------------- machine state ----------------------------- *)

\* The program variables an operation runs on, with what it raised so far:
\* ev, the protocol events handed to the slave handler; rcv, the calls of the
\* user's receive handler; req, the calls of the user's request handler;
\* blocked, whether a busy-wait on a full transmit FIFO was entered.
Cur ==
    [slave |-> slave, irq |-> irq, hw |-> hw, bus |-> bus, wire |-> wire,
     fault |-> fault, ev |-> <<>>, rcv |-> <<>>, req |-> 0, blocked |-> FALSE]

\* assert / hard_assert: the first failure aborts the process.
Fail(st, name) == IF st.fault = "none" THEN [st EXCEPT !.fault = name] ELSE st

Running(st) == st.fault = "none" /\ ~st.blocked

NoSlave == [i2c |-> NULL, handler |-> NULL, transfer_in_progress |-> FALSE]

NewWire ==
    [receiveHandler |-> NULL, requestHandler |-> NULL, mode |-> Unassigned,
     txAddress |-> NO_ADDRESS, buf |-> <<>>, bufLen |-> 0, bufPos |-> 0]

NewHw ==
    [raw |-> {}, rx |-> <<>>, tx |-> <<>>, intr_mask |-> I2C_IC_INTR_MASK_RESET,
     slave_mode |-> FALSE]

NewBus == [xfer |-> 0, active |-> FALSE, dir |-> "w", n |-> 0, wait |-> FALSE]

(* ------------------------------ hardware ------------------------------- *)

\* hw->intr_stat: the raw conditions under the mask; RX_FULL is the level of
\* the receive FIFO (threshold 0), the other four are sticky until cleared.
IntrStat(h) ==
    (h.raw \cup (IF Len(h.rx) > 0 THEN {RX_FULL} ELSE {})) \cap h.intr_mask

\* hw->clr_tx_abrt, clr_start_det, clr_stop_det, clr_rd_req
ClearIntr(st, i2c, bit) ==
    IF ~Running(st) THEN st
    ELSE [st EXCEPT !.hw[i2c].raw = @ \ {bit}]

\* i2c_set_slave_mode: the block is disabled, reconfigured and enabled again,
\* which resets both FIFOs and the raw conditions; a transfer the peer had
\* under way is lost to it.
i2c_set_slave_mode(st, i2c, on) ==
    [st EXCEPT !.hw[i2c].slave_mode = on,
               !.hw[i2c].rx = <<>>,
               !.hw[i2c].tx = <<>>,
               !.hw[i2c].raw = {},
               !.bus[i2c] = [NewBus EXCEPT !.xfer = st.bus[i2c].xfer]]

\* The status bit stuck at one.
TFNF_stuck(h) == TRUE

\* hw->status & I2C_IC_STATUS_TFNF_BITS: the transmit FIFO is not full.
TFNF(h) == Len(h.tx) < TxDepth

\* i2c_write_byte
i2c_write_byte(h, value) == [h EXCEPT !.tx = Append(@, value)]

\* while (!(hw->status & TFNF)) tight_loop_contents(); i2c_write_byte(i2c, value)
\* run to completion inside one operation: with the FIFO full the wait is
\* entered and the operation cannot complete in this state.
PushTxByte(st, i2c, value) ==
    IF ~Running(st) THEN st
    ELSE IF ~TFNF(st.hw[i2c]) THEN [st EXCEPT !.blocked = TRUE]
    ELSE [st EXCEPT !.hw[i2c] = i2c_write_byte(@, value)]

(* ------------------------ TwoWire: the accessors ----------------------- *)

\* TwoWire::available
available(w) == w.bufLen - w.bufPos

\* TwoWire::peek
peek(w) == IF w.bufPos < w.bufLen THEN w.buf[w.bufPos + 1] ELSE -1

\* TwoWire::read: the value returned and the object afterwards
read(w) ==
    IF w.bufPos < w.bufLen
    THEN [ret |-> w.buf[w.bufPos + 1], w |-> [w EXCEPT !.bufPos = @ + 1]]
    ELSE [ret |-> -1, w |-> w]

(* ---------------------------- user handlers ---------------------------- *)

RECURSIVE ReadWhileAvailable(_)
\* while (Wire.available()) { ... Wire.read(); }
ReadWhileAvailable(w) ==
    IF available(w) > 0 THEN ReadWhileAvailable(read(w).w) ELSE w

\* slave_on_receive: reads the memory address, then every remaining byte.
slave_on_receive(st, i2c, count) ==
    IF ~Running(st) THEN st
    ELSE LET w == st.wire[i2c]
             seen == [st EXCEPT !.rcv = Append(@, [count |-> count, buf |-> w.buf])]
         IN IF available(w) = 0 THEN Fail(seen, "slave_on_receive: available")
            ELSE [seen EXCEPT !.wire[i2c] = ReadWhileAvailable(read(w).w)]

\* slave_on_request: Wire.write(value), a slave-mode write of one byte.
slave_on_request(st, i2c, value) ==
    IF ~Running(st) THEN st
    ELSE PushTxByte([st EXCEPT !.req = @ + 1], i2c, value)

(* ----------------------- TwoWire::handleEvent -------------------------- *)

RECURSIVE DrainRx_unchecked(_, _)
\* The receive loop without the test against WIRE_BUFFER_LENGTH.
DrainRx_unchecked(w, rx) ==
    IF rx = <<>> THEN w
    ELSE DrainRx_unchecked([w EXCEPT !.buf = Append(SubSeq(@, 1, w.bufLen), Head(rx)),
                                     !.bufLen = @ + 1], Tail(rx))

RECURSIVE DrainRx_keeps_latest(_, _)
\* The receive loop storing a byte that finds the buffer full over the last one.
DrainRx_keeps_latest(w, rx) ==
    IF rx = <<>> THEN w
    ELSE IF w.bufLen < WIRE_BUFFER_LENGTH
         THEN DrainRx_keeps_latest(
                  [w EXCEPT !.buf = Append(SubSeq(@, 1, w.bufLen), Head(rx)),
                            !.bufLen = @ + 1], Tail(rx))
         ELSE DrainRx_keeps_latest(
                  [w EXCEPT !.buf = Append(SubSeq(@, 1, w.bufLen - 1), Head(rx))],
                  Tail(rx))

RECURSIVE DrainRx(_, _)
\* for (n = i2c_get_read_available(i2c); n > 0; n--) { value = i2c_read_byte(i2c); ... }
DrainRx(w, rx) ==
    IF rx = <<>> THEN w
    ELSE IF w.bufLen < WIRE_BUFFER_LENGTH
         THEN DrainRx([w EXCEPT !.buf = Append(SubSeq(@, 1, w.bufLen), Head(rx)),
                                !.bufLen = @ + 1], Tail(rx))
         ELSE DrainRx(w, Tail(rx))

\* handleEvent whose FINISH branch leaves bufLen_ and bufPos_ as the receive
\* handler left them.
handleEvent_keeps_buffer(st, i2c, event, value) ==
    IF ~Running(st) THEN st
    ELSE LET w == st.wire[i2c]
             s0 == [st EXCEPT !.ev = Append(@, [event |-> event, i2c |-> i2c])]
         IN IF w.mode # Slave THEN Fail(s0, "handleEvent: mode_ == Slave")
            ELSE IF w.bufPos # 0 THEN Fail(s0, "handleEvent: bufPos_ == 0")
            ELSE IF event = I2C_SLAVE_RECEIVE
                 THEN [s0 EXCEPT !.wire[i2c] = DrainRx(w, s0.hw[i2c].rx),
                                 !.hw[i2c].rx = <<>>]
            ELSE IF event = I2C_SLAVE_REQUEST
                 THEN IF w.bufLen # 0 THEN Fail(s0, "handleEvent: REQUEST bufLen_ == 0")
                      ELSE IF w.requestHandler # NULL
                           THEN slave_on_request(s0, i2c, value)
                           ELSE s0
            ELSE IF event = I2C_SLAVE_FINISH /\ 0 < w.bufLen /\ w.receiveHandler # NULL
                 THEN slave_on_receive(s0, i2c, w.bufLen)
            ELSE s0

handleEvent(st, i2c, event, value) ==
    IF ~Running(st) THEN st
    ELSE LET w == st.wire[i2c]
             s0 == [st EXCEPT !.ev = Append(@, [event |-> event, i2c |-> i2c])]
         IN IF w.mode # Slave THEN Fail(s0, "handleEvent: mode_ == Slave")
            ELSE IF w.bufPos # 0 THEN Fail(s0, "handleEvent: bufPos_ == 0")
            ELSE IF event = I2C_SLAVE_RECEIVE
                 THEN [s0 EXCEPT !.wire[i2c] = DrainRx(w, s0.hw[i2c].rx),
                                 !.hw[i2c].rx = <<>>]
            ELSE IF event = I2C_SLAVE_REQUEST
                 THEN IF w.bufLen # 0 THEN Fail(s0, "handleEvent: REQUEST bufLen_ == 0")
                      ELSE IF w.requestHandler # NULL
                           THEN slave_on_request(s0, i2c, value)
                           ELSE s0
            ELSE IF event = I2C_SLAVE_FINISH
                 THEN IF 0 < w.bufLen
                      THEN LET s1 == IF w.receiveHandler # NULL
                                     THEN slave_on_receive(s0, i2c, w.bufLen)
                                     ELSE s0
                           IN IF ~Running(s1) THEN s1
                              ELSE [s1 EXCEPT !.wire[i2c].bufLen = 0,
                                              !.wire[i2c].buf = <<>>,
                                              !.wire[i2c].bufPos = 0]
                      ELSE s0
            ELSE s0

(* --------------------------- i2c_slave.c ------------------------------- *)

\* slave->handler(i2c, event): the only handler this repository registers is
\* TwoWire::handleEvent.
CallHandler(st, handler, i2c, event, value) ==
    IF ~Running(st) THEN st
    ELSE IF handler = NULL \/ i2c = NULL THEN Fail(st, "call through NULL")
    ELSE handleEvent(st, i2c, event, value)

\* finish_transfer without the reset of the flag.
finish_transfer_keeps_flag(st, c) ==
    IF ~Running(st) THEN st
    ELSE IF st.slave[c].transfer_in_progress
         THEN CallHandler(st, st.slave[c].handler, st.slave[c].i2c, I2C_SLAVE_FINISH, 0)
         ELSE st

finish_transfer(st, c) ==
    IF ~Running(st) THEN st
    ELSE IF st.slave[c].transfer_in_progress
         THEN LET s1 == CallHandler(st, st.slave[c].handler, st.slave[c].i2c,
                                    I2C_SLAVE_FINISH, 0)
              IN IF ~Running(s1) THEN s1
                 ELSE [s1 EXCEPT !.slave[c].transfer_in_progress = FALSE]
         ELSE st

SetInProgress(st, c) ==
    IF ~Running(st) THEN st
    ELSE [st EXCEPT !.slave[c].transfer_in_progress = TRUE]

\* The service routine with RX_FULL looked at first, before abort, start and
\* stop.
i2c_slave_irq_handler_receive_first(st, c, value) ==
    LET i2c == st.slave[c].i2c
        handler == st.slave[c].handler
        intr_stat == IntrStat(st.hw[i2c])
        s1 == IF RX_FULL \in intr_stat
              THEN CallHandler(SetInProgress(st, c), handler, i2c,
                               I2C_SLAVE_RECEIVE, 0)
              ELSE st
        s2 == IF TX_ABRT \in intr_stat
              THEN ClearIntr(finish_transfer(s1, c), i2c, TX_ABRT) ELSE s1
        s3 == IF START_DET \in intr_stat
              THEN ClearIntr(finish_transfer(s2, c), i2c, START_DET) ELSE s2
        s4 == IF STOP_DET \in intr_stat
              THEN ClearIntr(finish_transfer(s3, c), i2c, STOP_DET) ELSE s3
        s5 == IF RD_REQ \in intr_stat
              THEN ClearIntr(CallHandler(SetInProgress(s4, c), handler, i2c,
                                         I2C_SLAVE_REQUEST, value), i2c, RD_REQ)
              ELSE s4
    IN IF intr_stat = {} THEN st ELSE s5

\* One pass of the interrupt service routine on core c (slave->i2c not NULL).
i2c_slave_irq_handler(st, c, value) ==
    LET i2c == st.slave[c].i2c
        handler == st.slave[c].handler
        intr_stat == IntrStat(st.hw[i2c])
        s1 == IF TX_ABRT \in intr_stat
              THEN ClearIntr(finish_transfer(st, c), i2c, TX_ABRT) ELSE st
        s2 == IF START_DET \in intr_stat
              THEN ClearIntr(finish_transfer(s1, c), i2c, START_DET) ELSE s1
        s3 == IF STOP_DET \in intr_stat
              THEN ClearIntr(finish_transfer(s2, c), i2c, STOP_DET) ELSE s2
        s4 == IF RX_FULL \in intr_stat
              THEN CallHandler(SetInProgress(s3, c), handler, i2c,
                               I2C_SLAVE_RECEIVE, 0)
              ELSE s3
        s5 == IF RD_REQ \in intr_stat
              THEN ClearIntr(CallHandler(SetInProgress(s4, c), handler, i2c,
                                         I2C_SLAVE_REQUEST, value), i2c, RD_REQ)
              ELSE s4
    IN IF intr_stat = {} THEN st ELSE s5

\* i2c_slave_deinit without the hard_assert_if.
i2c_slave_deinit_unchecked(st, c) ==
    IF ~Running(st) THEN st
    ELSE LET i2c == st.slave[c].i2c
         IN IF i2c = NULL THEN [st EXCEPT !.slave[c] = NoSlave]
            ELSE LET s1 == [st EXCEPT !.slave[c] = NoSlave,
                                      !.irq[c] = @ \ {i2c},
                                      !.hw[i2c].intr_mask = I2C_IC_INTR_MASK_RESET]
                 IN [s1 EXCEPT !.hw[i2c].slave_mode = FALSE]

i2c_slave_init(st, c, i2c, handler) ==
    IF ~Running(st) THEN st
    ELSE LET s1 == [st EXCEPT !.slave[c].i2c = i2c, !.slave[c].handler = handler]
             s2 == i2c_set_slave_mode(s1, i2c, TRUE)
         IN [s2 EXCEPT !.hw[i2c].intr_mask = SlaveIntrMask,
                       !.irq[c] = @ \cup {i2c}]

\* The definition takes no parameter: the record is this core's.
i2c_slave_deinit(st, c) ==
    IF ~Running(st) THEN st
    ELSE LET i2c == st.slave[c].i2c
         IN IF i2c = NULL THEN Fail(st, "i2c_slave_deinit: i2c == NULL")
            ELSE LET s1 == [st EXCEPT !.slave[c] = NoSlave,
                                      !.irq[c] = @ \ {i2c},
                                      !.hw[i2c].intr_mask = I2C_IC_INTR_MASK_RESET]
                 IN i2c_set_slave_mode(s1, i2c, FALSE)

(* ------------------- TwoWire: the application calls -------------------- *)

ClearBuffer(w) == [w EXCEPT !.bufLen = 0, !.buf = <<>>, !.bufPos = 0]

\* TwoWire::begin(): i2c_slave_deinit is called whenever mode_ != Unassigned.
begin(st, c, i2c) ==
    LET s1 == IF st.wire[i2c].mode # Unassigned THEN i2c_slave_deinit(st, c) ELSE st
    IN IF ~Running(s1) THEN s1
       ELSE [s1 EXCEPT !.wire[i2c] = ClearBuffer([@ EXCEPT !.mode = Master])]

\* TwoWire::begin(uint8_t selfAddress)
beginSlave(st, c, i2c) ==
    LET s1 == IF st.wire[i2c].mode # Unassigned THEN i2c_slave_deinit(st, c) ELSE st
        s2 == IF ~Running(s1) THEN s1
              ELSE [s1 EXCEPT !.wire[i2c] = ClearBuffer([@ EXCEPT !.mode = Slave])]
    IN i2c_slave_init(s2, c, i2c, "handleEvent")

\* beginTransmission without `bufPos_ = 0`.
beginTransmission_keeps_cursor(w, address) ==
    [w EXCEPT !.txAddress = address, !.bufLen = 0, !.buf = <<>>]

beginTransmission(w, address) ==
    ClearBuffer([w EXCEPT !.txAddress = address])

\* endTransmission without `txAddress_ = NO_ADDRESS`.
endTransmission_keeps_address(w, result) ==
    LET w1 == [w EXCEPT !.bufLen = 0, !.buf = <<>>]
    IN [w |-> w1,
        ret |-> IF result < 0 THEN 4
                ELSE IF result < w1.bufLen THEN 3
                ELSE 0]

\* result is what i2c_write_blocking returned; bufLen_ is reset before the
\* result is compared with it.
endTransmission(w, result) ==
    LET w1 == [w EXCEPT !.txAddress = NO_ADDRESS, !.bufLen = 0, !.buf = <<>>]
    IN [w |-> w1,
        ret |-> IF result < 0 THEN 4
                ELSE IF result < w1.bufLen THEN 3
                ELSE 0]

\* requestFrom without the reset of the cursor.
requestFrom_keeps_cursor(w, result, data) ==
    LET r == IF result < 0 THEN 0 ELSE result
    IN [w |-> [w EXCEPT !.bufLen = r % 256, !.buf = SubSeq(data, 1, r % 256)],
        ret |-> r % 256]

\* requestFrom without `if (result < 0) result = 0`: the error code is cast.
requestFrom_casts_error(w, result, data) ==
    LET r == result % 256
    IN [w |-> [w EXCEPT !.bufLen = r, !.buf = SubSeq(data, 1, MIN(r, Len(data))),
                        !.bufPos = 0],
        ret |-> r]

\* result and data are what i2c_read_blocking returned and stored in buf_.
requestFrom(w, result, data) ==
    LET r == IF result < 0 THEN 0 ELSE result
    IN [w |-> [w EXCEPT !.bufLen = r % 256, !.buf = SubSeq(data, 1, r % 256),
                        !.bufPos = 0],
        ret |-> r % 256]

\* TwoWire::write(uint8_t value), Master branch
writeByte(w, value) ==
    IF w.bufLen = WIRE_BUFFER_LENGTH THEN [w |-> w, ret |-> 0]
    ELSE [w |-> [w EXCEPT !.buf = Append(SubSeq(@, 1, w.bufLen), value),
                          !.bufLen = @ + 1],
          ret |-> 1]

\* write(data, size) without the MIN against the room left.
writeBytes_unclamped(w, data) ==
    [w |-> [w EXCEPT !.buf = SubSeq(@, 1, w.bufLen) \o data,
                     !.bufLen = @ + Len(data)],
     ret |-> Len(data)]

\* TwoWire::write(const uint8_t *data, size_t size), Master branch
writeBytes(w, data) ==
    LET size == MIN(Len(data), WIRE_BUFFER_LENGTH - w.bufLen)
    IN [w |-> [w EXCEPT !.buf = SubSeq(@, 1, w.bufLen) \o SubSeq(data, 1, size),
                        !.bufLen = @ + size],
        ret |-> size]

(* ------------------------------ actions -------------------------------- *)

\* wr: the port, the array and the loop index i of a slave-mode write, with
\* the bytes it wrote to the FIFO so far.
\* No event delivered yet since i2c_slave_init.
NoEvent == "none"

Idle == [i2c |-> NULL, data |-> <<>>, n |-> 0, pushed |-> <<>>]

\* The application runs (no abort so far, not inside a blocking write).
App == fault = "none" /\ wr = Idle

Set(st) ==
    /\ ~st.blocked
    /\ slave' = st.slave
    /\ irq' = st.irq
    /\ hw' = st.hw
    /\ bus' = st.bus
    /\ wire' = st.wire
    /\ fault' = st.fault

SetWire(i2c, w) ==
    /\ wire' = [wire EXCEPT ![i2c] = w]
    /\ UNCHANGED <<delivered, slave, irq, hw, bus, wr, fault>>

\* The arrays an application writes, or a bulk read stores: n consecutive
\* byte values from a first one, so that position and order are visible.
Run(first, n) == [k \in 1..n |-> first + k - 1]
Datas(n) == {Run(f, k) : f \in AppBytes, k \in 0..n}

\* The calls of an open transmission, as long as `last` has followed them
\* from beginTransmission on: the address given and the bytes accepted.
InTransmission == last.op \in {"beginTransmission", "write"} /\ last.whole
Accepted == IF InTransmission THEN last.accepted ELSE <<>>
Target == IF InTransmission THEN last.target ELSE NO_ADDRESS

Begin(c, i2c) ==
    /\ App
    /\ wire[i2c].txAddress = NO_ADDRESS
    /\ Set(begin(Cur, c, i2c))
    /\ last' = [op |-> "begin", i2c |-> i2c, core |-> c, mode |-> wire[i2c].mode,
                bound |-> slave[c].i2c, handler |-> slave[c].handler,
                tip |-> slave[c].transfer_in_progress,
                afterUnbind |-> /\ last.op = "begin" /\ last.core = c
                                /\ last.mode # Unassigned /\ last.bound # NULL]
    /\ delivered' = IF wire[i2c].mode # Unassigned /\ begin(Cur, c, i2c).fault = "none"
                    THEN [delivered EXCEPT ![c] = NoEvent]
                    ELSE delivered
    /\ UNCHANGED wr

BeginSlave(c, i2c) ==
    /\ App
    /\ wire[i2c].txAddress = NO_ADDRESS
    /\ Set(beginSlave(Cur, c, i2c))
    /\ last' = [op |-> "beginSlave", i2c |-> i2c, core |-> c, mode |-> wire[i2c].mode,
                bound |-> slave[c].i2c]
    /\ delivered' = IF beginSlave(Cur, c, i2c).fault = "none"
                    THEN [delivered EXCEPT ![c] = NoEvent]
                    ELSE delivered
    /\ UNCHANGED wr

BeginTransmission(i2c, address) ==
    /\ App
    /\ wire[i2c].mode = Master
    /\ wire[i2c].txAddress = NO_ADDRESS
    /\ address # NO_ADDRESS
    /\ SetWire(i2c, beginTransmission(wire[i2c], address))
    /\ last' = [op |-> "beginTransmission", i2c |-> i2c, whole |-> TRUE,
                target |-> address, accepted |-> <<>>, pos |-> wire[i2c].bufPos]

\* i2c_write_blocking returns the number of bytes written (fewer than len when
\* the slave NACKs a data byte) or PICO_ERROR_GENERIC.
EndTransmission(i2c, result) ==
    /\ App
    /\ wire[i2c].mode = Master
    /\ wire[i2c].txAddress # NO_ADDRESS
    /\ result \in {PICO_ERROR_GENERIC} \cup 0..wire[i2c].bufLen
    /\ IF wire[i2c].bufPos # 0
       THEN /\ fault' = "endTransmission: bufPos_ == 0"
            /\ UNCHANGED <<delivered, slave, irq, hw, bus, wire, wr>>
            /\ last' = [op |-> "endTransmission", i2c |-> i2c]
       ELSE /\ SetWire(i2c, endTransmission(wire[i2c], result).w)
            /\ last' = [op |-> "endTransmission", i2c |-> i2c,
                        address |-> wire[i2c].txAddress,
                        sent |-> SubSeq(wire[i2c].buf, 1, wire[i2c].bufLen),
                        len |-> wire[i2c].bufLen, result |-> result,
                        ret |-> endTransmission(wire[i2c], result).ret,
                        whole |-> InTransmission, target |-> Target,
                        accepted |-> Accepted]

\* i2c_read_blocking returns len, with len bytes stored, or PICO_ERROR_GENERIC.
RequestFrom(i2c, count, ok, data) ==
    /\ App
    /\ wire[i2c].mode = Master
    /\ wire[i2c].txAddress = NO_ADDRESS
    /\ Len(data) = MIN(count, WIRE_BUFFER_LENGTH)
    /\ LET len == MIN(count, WIRE_BUFFER_LENGTH)
           result == IF ok THEN len ELSE PICO_ERROR_GENERIC
           r == requestFrom(wire[i2c], result, IF ok THEN data ELSE <<>>)
       IN /\ SetWire(i2c, r.w)
          /\ last' = [op |-> "requestFrom", i2c |-> i2c, count |-> count,
                      len |-> len, result |-> result, data |-> data,
                      pos |-> wire[i2c].bufPos,
                      ret |-> r.ret, reads |-> <<>>, peek |-> <<>>]

Available(i2c) ==
    /\ App
    /\ wire[i2c].mode # Unassigned
    /\ wire[i2c].txAddress = NO_ADDRESS
    /\ last' = [op |-> "available", i2c |-> i2c, ret |-> available(wire[i2c])]
    /\ UNCHANGED <<delivered, slave, irq, hw, bus, wire, wr, fault>>

Peek(i2c) ==
    /\ App
    /\ wire[i2c].mode # Unassigned
    /\ wire[i2c].txAddress = NO_ADDRESS
    /\ last' = IF last.op = "requestFrom" /\ last.i2c = i2c
               THEN [last EXCEPT !.peek = <<peek(wire[i2c])>>]
               ELSE [op |-> "peek", i2c |-> i2c, ret |-> peek(wire[i2c]),
                     pos |-> wire[i2c].bufPos]
    /\ UNCHANGED <<delivered, slave, irq, hw, bus, wire, wr, fault>>

\* After requestFrom the values read are collected, in order, in last.reads.
Read(i2c) ==
    /\ App
    /\ wire[i2c].mode # Unassigned
    /\ wire[i2c].txAddress = NO_ADDRESS
    /\ SetWire(i2c, read(wire[i2c]).w)
    /\ last' = IF last.op = "requestFrom" /\ last.i2c = i2c
                  /\ Len(last.reads) <= WIRE_BUFFER_LENGTH
               THEN [last EXCEPT !.reads = Append(@, read(wire[i2c]).ret),
                                 !.peek = <<>>]
               ELSE [op |-> "read", i2c |-> i2c, ret |-> read(wire[i2c]).ret,
                     pos |-> wire[i2c].bufPos]

WriteByte(i2c, value) ==
    /\ App
    /\ wire[i2c].mode = Master
    /\ wire[i2c].txAddress # NO_ADDRESS
    /\ SetWire(i2c, writeByte(wire[i2c], value).w)
    /\ last' = [op |-> "write", i2c |-> i2c, data |-> <<value>>,
                len |-> wire[i2c].bufLen,
                buf |-> SubSeq(wire[i2c].buf, 1, wire[i2c].bufLen),
                ret |-> writeByte(wire[i2c], value).ret,
                whole |-> InTransmission, target |-> Target,
                accepted |-> Accepted \o SubSeq(<<value>>, 1, writeByte(wire[i2c], value).ret)]

WriteBytes(i2c, data) ==
    /\ App
    /\ wire[i2c].mode = Master
    /\ wire[i2c].txAddress # NO_ADDRESS
    /\ SetWire(i2c, writeBytes(wire[i2c], data).w)
    /\ last' = [op |-> "write", i2c |-> i2c, data |-> data,
                len |-> wire[i2c].bufLen,
                buf |-> SubSeq(wire[i2c].buf, 1, wire[i2c].bufLen),
                ret |-> writeBytes(wire[i2c], data).ret,
                whole |-> InTransmission, target |-> Target,
                accepted |-> Accepted \o SubSeq(data, 1, writeBytes(wire[i2c], data).ret)]

\* TwoWire::write(uint8_t value), Slave branch: the wait for a transmit FIFO
\* that is not full, then the byte.
WriteSlaveByte(i2c, value) ==
    /\ App
    /\ wire[i2c].mode = Slave
    /\ Set(PushTxByte(Cur, i2c, value))
    /\ last' = [op |-> "writeSlaveByte", i2c |-> i2c, value |-> value, ret |-> 1]
    /\ UNCHANGED <<delivered, wr>>

\* Slave-mode write(data, size), one step at a time: interrupts and the bus
\* run between the steps. Entry, with i = 0.
WriteSlaveCall(i2c, data) ==
    /\ App
    /\ wire[i2c].mode = Slave
    /\ wr' = [i2c |-> i2c, data |-> data, n |-> 0, pushed |-> <<>>]
    /\ last' = [op |-> "writeSlave", i2c |-> i2c, data |-> data]
    /\ UNCHANGED <<delivered, slave, irq, hw, bus, wire, fault>>

\* One iteration: the busy-wait left with TFNF set, then i2c_write_byte.
WriteSlavePush ==
    /\ fault = "none"
    /\ wr # Idle
    /\ wr.n < Len(wr.data)
    /\ TFNF(hw[wr.i2c])
    /\ hw' = [hw EXCEPT ![wr.i2c] = i2c_write_byte(@, wr.data[wr.n + 1])]
    /\ wr' = [wr EXCEPT !.n = @ + 1, !.pushed = Append(@, wr.data[wr.n + 1])]
    /\ last' = [op |-> "writeSlavePush", i2c |-> wr.i2c]
    /\ UNCHANGED <<delivered, slave, irq, bus, wire, fault>>

\* i == size: return size.
WriteSlaveReturn ==
    /\ fault = "none"
    /\ wr # Idle
    /\ wr.n = Len(wr.data)
    /\ wr' = Idle
    /\ last' = [op |-> "writeSlaveDone", i2c |-> wr.i2c, data |-> wr.data,
                pushed |-> wr.pushed, ret |-> Len(wr.data)]
    /\ UNCHANGED <<delivered, slave, irq, hw, bus, wire, fault>>

OnReceive(i2c, handler) ==
    /\ App
    /\ wire[i2c].receiveHandler # handler
    /\ SetWire(i2c, [wire[i2c] EXCEPT !.receiveHandler = handler])
    /\ last' = [op |-> "onReceive", i2c |-> i2c]

OnRequest(i2c, handler) ==
    /\ App
    /\ wire[i2c].requestHandler # handler
    /\ SetWire(i2c, [wire[i2c] EXCEPT !.requestHandler = handler])
    /\ last' = [op |-> "onRequest", i2c |-> i2c]

(* ----------------------- the peer master on the bus -------------------- *)

\* START or repeated START addressed to the slave, for a write or a read.
\* While the slave holds the clock for a byte it owes, the master waits.
BusStart(i2c, dir) ==
    /\ fault = "none"
    /\ hw[i2c].slave_mode
    /\ ~bus[i2c].wait
    /\ bus[i2c].xfer < MaxTransfers
    /\ bus' = [bus EXCEPT ![i2c] = [xfer |-> @.xfer + 1, active |-> TRUE,
                                    dir |-> dir, n |-> 0, wait |-> FALSE]]
    /\ hw' = [hw EXCEPT ![i2c].raw = @ \cup {START_DET}]
    /\ last' = [op |-> "bus"]
    /\ UNCHANGED <<delivered, slave, irq, wire, wr, fault>>

\* The master writes one byte: it lands in the receive FIFO.
BusWrite(i2c) ==
    /\ fault = "none"
    /\ bus[i2c].active /\ bus[i2c].dir = "w"
    /\ bus[i2c].n < MaxXferBytes
    /\ Len(hw[i2c].rx) < RxDepth
    /\ bus' = [bus EXCEPT ![i2c].n = @ + 1]
    /\ hw' = [hw EXCEPT ![i2c].rx = Append(@, BusByte(bus[i2c].xfer, bus[i2c].n + 1))]
    /\ last' = [op |-> "bus"]
    /\ UNCHANGED <<delivered, slave, irq, wire, wr, fault>>

\* The master asks for a byte and the transmit FIFO cannot serve it: RD_REQ,
\* the clock held until a byte is written. Data left in the FIFO from before
\* the read is flushed with TX_ABRT.
BusReadReq(i2c) ==
    /\ fault = "none"
    /\ bus[i2c].active /\ bus[i2c].dir = "r"
    /\ ~bus[i2c].wait
    /\ bus[i2c].n < MaxXferReads
    /\ bus[i2c].n = 0 \/ hw[i2c].tx = <<>>
    /\ bus' = [bus EXCEPT ![i2c].n = @ + 1, ![i2c].wait = TRUE]
    /\ hw' = [hw EXCEPT ![i2c].raw = @ \cup {RD_REQ}
                                       \cup (IF hw[i2c].tx # <<>> THEN {TX_ABRT} ELSE {}),
                        ![i2c].tx = <<>>]
    /\ last' = [op |-> "bus"]
    /\ UNCHANGED <<delivered, slave, irq, wire, wr, fault>>

\* The master clocks one byte out of the transmit FIFO: the byte it waited
\* for, or a further one already queued.
BusRead(i2c) ==
    /\ fault = "none"
    /\ bus[i2c].active /\ bus[i2c].dir = "r"
    /\ bus[i2c].n > 0
    /\ hw[i2c].tx # <<>>
    /\ bus[i2c].wait \/ bus[i2c].n < MaxXferReads
    /\ bus' = [bus EXCEPT ![i2c].n = IF bus[i2c].wait THEN @ ELSE @ + 1,
                          ![i2c].wait = FALSE]
    /\ hw' = [hw EXCEPT ![i2c].tx = Tail(@)]
    /\ last' = [op |-> "bus"]
    /\ UNCHANGED <<delivered, slave, irq, wire, wr, fault>>

\* A master that keeps reading: it clocks a byte out of the transmit FIFO
\* whenever there is one, for as long as its read transfer lasts.
BusDrain(i2c) ==
    /\ fault = "none"
    /\ bus[i2c].active /\ bus[i2c].dir = "r"
    /\ bus[i2c].n > 0
    /\ hw[i2c].tx # <<>>
    /\ bus' = [bus EXCEPT ![i2c].wait = FALSE]
    /\ hw' = [hw EXCEPT ![i2c].tx = Tail(@)]
    /\ last' = [op |-> "bus"]
    /\ UNCHANGED <<delivered, slave, irq, wire, wr, fault>>

BusStop(i2c) ==
    /\ fault = "none"
    /\ bus[i2c].active
    /\ ~bus[i2c].wait
    /\ bus' = [bus EXCEPT ![i2c].active = FALSE]
    /\ hw' = [hw EXCEPT ![i2c].raw = @ \cup {STOP_DET}]
    /\ last' = [op |-> "bus"]
    /\ UNCHANGED <<delivered, slave, irq, wire, wr, fault>>

(* --------------------------- the interrupt ----------------------------- *)

\* The line of instance `line` is enabled on core c and has a condition
\* pending: the service routine runs one pass, on this core's record.
Irq(c, line, value) ==
    /\ fault = "none"
    /\ line \in irq[c]
    /\ IntrStat(hw[line]) # {}
    /\ slave[c].i2c # NULL
    /\ Set(i2c_slave_irq_handler(Cur, c, value))
    /\ LET st == i2c_slave_irq_handler(Cur, c, value)
       IN last' = [op |-> "irq", core |-> c, line |-> line, i2c |-> slave[c].i2c,
                   stat |-> IntrStat(hw[slave[c].i2c]),
                   tip |-> slave[c].transfer_in_progress,
                   buf |-> SubSeq(wire[slave[c].i2c].buf, 1, wire[slave[c].i2c].bufLen),
                   rx |-> hw[slave[c].i2c].rx,
                   before |-> delivered[c],
                   ev |-> st.ev, rcv |-> st.rcv, req |-> st.req]
          /\ delivered' = IF st.ev = <<>> THEN delivered
                          ELSE [delivered EXCEPT ![c] = st.ev[Len(st.ev)].event]
    /\ UNCHANGED wr

\* The same with this core's record unbound: i2c_get_hw(NULL) is read. The
\* pass may find nothing asserted there and return, or crash.
IrqUnbound(c, line, crash) ==
    /\ fault = "none"
    /\ line \in irq[c]
    /\ IntrStat(hw[line]) # {}
    /\ slave[c].i2c = NULL
    /\ fault' = IF crash THEN "irq: slave->i2c == NULL" ELSE fault
    /\ last' = [op |-> "irqUnbound", core |-> c, line |-> line]
    /\ UNCHANGED <<delivered, slave, irq, hw, bus, wire, wr>>

(* --------------------------- specifications ---------------------------- *)

Init ==
    /\ slave = [c \in Cores |-> NoSlave]
    /\ irq = [c \in Cores |-> {}]
    /\ hw = [i \in Insts |-> NewHw]
    /\ bus = [i \in Insts |-> NewBus]
    /\ wire = [i \in Insts |-> NewWire]
    /\ wr = Idle
    /\ fault = "none"
    /\ delivered = [c \in Cores |-> NoEvent]
    /\ last = [op |-> "init"]

\* The example's arrangement: one port, Wire on i2c0, driven from core 0.
Port == "i2c0"

Next ==
    \/ Begin(0, Port)
    \/ BeginSlave(0, Port)
    \/ \E a \in {23} : BeginTransmission(Port, a)
    \/ \E r \in {PICO_ERROR_GENERIC} \cup 0..WIRE_BUFFER_LENGTH : EndTransmission(Port, r)
    \/ \E n \in 0..(WIRE_BUFFER_LENGTH + MaxExcess), ok \in BOOLEAN :
          \E d \in Datas(WIRE_BUFFER_LENGTH) : RequestFrom(Port, n, ok, d)
    \/ wire[Port].mode = Master /\ Available(Port)
    \/ wire[Port].mode = Master /\ Peek(Port)
    \/ wire[Port].mode = Master /\ Read(Port)
    \/ \E v \in AppBytes : WriteByte(Port, v)
    \/ \E d \in Datas(WIRE_BUFFER_LENGTH + MaxExcess) : WriteBytes(Port, d)
    \/ \E v \in ReplyBytes : WriteSlaveByte(Port, v)
    \/ \E h \in {NULL, "slave_on_receive"} : OnReceive(Port, h)
    \/ \E h \in {NULL, "slave_on_request"} : OnRequest(Port, h)
    \/ \E d \in {"w", "r"} : BusStart(Port, d)
    \/ BusWrite(Port)
    \/ BusReadReq(Port)
    \/ BusRead(Port)
    \/ BusStop(Port)
    \/ \E v \in ReplyBytes : Irq(0, Port, v)

Spec == Init /\ [][Next]_vars

\* Both ports and both cores: the registry under begin() / begin(address),
\* with the bus and the interrupt lines of both instances.
NextRegistry ==
    \/ \E c \in Cores, i \in Insts : Begin(c, i)
    \/ \E c \in Cores, i \in Insts : BeginSlave(c, i)
    \/ \E i \in Insts : bus[i].xfer < RegTransfers /\ BusStart(i, "w")
    \/ \E i \in Insts : bus[i].n < RegBytes /\ BusWrite(i)
    \/ \E i \in Insts : BusStop(i)
    \/ \E c \in Cores, i \in Insts, v \in ReplyBytes : Irq(c, i, v)
    \/ \E c \in Cores, i \in Insts, crash \in BOOLEAN : IrqUnbound(c, i, crash)

SpecRegistry == Init /\ [][NextRegistry]_vars

\* A slave whose application uses the calls allowed in Slave mode from thread
\* context, between the passes of the service routine, while a peer master
\* writes to it.
NextSlaveApp ==
    \/ BeginSlave(0, Port)
    \/ Available(Port)
    \/ Peek(Port)
    \/ Read(Port)
    \/ \E v \in ReplyBytes : WriteSlaveByte(Port, v)
    \/ \E h \in {NULL, "slave_on_receive"} : OnReceive(Port, h)
    \/ \E h \in {NULL, "slave_on_request"} : OnRequest(Port, h)
    \/ BusStart(Port, "w")
    \/ BusWrite(Port)
    \/ BusStop(Port)
    \/ \E v \in ReplyBytes : Irq(0, Port, v)

SpecSlaveApp == Init /\ [][NextSlaveApp]_vars

\* A slave whose application writes arrays to the transmit FIFO while a peer
\* master reads: the write loop step by step, the interrupt between the steps.
\* The loop keeps polling, and the master, once in a read transfer, keeps
\* clocking.
NextSlaveWrite ==
    \/ BeginSlave(0, Port)
    \/ \E h \in {NULL, "slave_on_request"} : OnRequest(Port, h)
    \/ \E d \in Datas(WIRE_BUFFER_LENGTH + MaxExcess) : WriteSlaveCall(Port, d)
    \/ WriteSlavePush
    \/ WriteSlaveReturn
    \/ BusStart(Port, "r")
    \/ BusReadReq(Port)
    \/ BusDrain(Port)
    \/ \E v \in ReplyBytes : Irq(0, Port, v)

SpecSlaveWrite ==
    /\ Init /\ [][NextSlaveWrite]_vars
    /\ WF_vars(WriteSlavePush)
    /\ WF_vars(WriteSlaveReturn)
    /\ WF_vars(BusReadReq(Port))
    /\ WF_vars(BusDrain(Port))

(* ------------------------------ claims --------------------------------- *)

Count(seq, event) == Cardinality({k \in 1..Len(seq) : seq[k].event = event})

\* C1: in one pass of the interrupt service routine, whatever conditions are
\* asserted, FINISH is raised to the handler at most once, and only if
\* transfer_in_progress was true when the pass began.
C1_FinishAtMostOnce ==
    last.op = "irq" =>
        /\ Count(last.ev, I2C_SLAVE_FINISH) <= 1
        /\ Count(last.ev, I2C_SLAVE_FINISH) = 1 => last.tip

\* A pass that began with a transfer in progress and found at least two of
\* abort / start / stop asserted, and raised FINISH.
C1_Witness ==
    /\ last.op = "irq"
    /\ last.tip
    /\ Cardinality(last.stat \cap {TX_ABRT, START_DET, STOP_DET}) >= 2
    /\ Count(last.ev, I2C_SLAVE_FINISH) = 1

SameTransfer(buf) == \A j, k \in 1..Len(buf) : XferOf(buf[j]) = XferOf(buf[k])

\* C2: the bytes in the buffer when the receive handler is called all belong
\* to one bus transfer.
C2_NoMergedTransfers ==
    last.op = "irq" => \A k \in 1..Len(last.rcv) : SameTransfer(last.rcv[k].buf)

\* C3: after the pass that clears the STOP of a write transfer of at least one
\* byte (no later transfer begun), no received byte is left buffered or in the
\* FIFO, the handler not called for it, and transfer_in_progress is false.
C3_DeliveredAtStop ==
    (/\ last.op = "irq"
     /\ fault = "none"
     /\ STOP_DET \in last.stat
     /\ bus[last.i2c].dir = "w" /\ bus[last.i2c].n >= 1
     /\ ~bus[last.i2c].active
     /\ STOP_DET \notin hw[last.i2c].raw)
    => /\ wire[last.i2c].bufLen = 0
       /\ hw[last.i2c].rx = <<>>
       /\ ~slave[last.core].transfer_in_progress

\* C4: endTransmission returns 4 when the bulk write reports an error, 3 when
\* it wrote fewer bytes than were buffered, and 0 only when all were written.
C4_EndTransmissionCodes ==
    (last.op = "endTransmission" /\ fault = "none") =>
        /\ last.result < 0 => last.ret = 4
        /\ (0 <= last.result /\ last.result < last.len) => last.ret = 3
        /\ last.ret = 0 => last.result = last.len

\* C5: a bind on a core whose context is already bound, with no unbind in
\* between, fails and leaves the stored instance and handler as they were.
C5_DoubleBindFails ==
    (last.op = "beginSlave" /\ last.bound # NULL /\ last.mode = Unassigned) =>
        /\ fault # "none"
        /\ slave[last.core].i2c = last.bound

\* C6: every instance bound on a core keeps its own record there, and a pass
\* entered for an instance's line serves that instance.
C6_RecordPerInstance ==
    /\ \A c \in Cores : \A i \in irq[c] : slave[c].i2c = i
    /\ last.op = "irq" => last.i2c = last.line /\ \A k \in 1..Len(last.ev) : last.ev[k].i2c = last.line

\* C7: begin() with no open transmission succeeds from any mode, leaves
\* mode = Master, length = 0, cursor = 0, and unbinds this core's slave
\* context if and only if the port was in Slave mode.
C7_BeginMaster ==
    last.op = "begin" =>
        /\ fault = "none"
        /\ wire[last.i2c].mode = Master
        /\ wire[last.i2c].bufLen = 0
        /\ wire[last.i2c].bufPos = 0
        /\ (slave[last.core] # [i2c |-> last.bound, handler |-> last.handler,
                                transfer_in_progress |-> last.tip])
            <=> (last.mode = Slave)

\* C8: a Master-mode write returns min(size, capacity - length), adds exactly
\* that many bytes, the leading ones of the input in order, and never takes
\* length beyond capacity.
C8_MasterWriteClamps ==
    last.op = "write" =>
        /\ last.ret = MIN(Len(last.data), WIRE_BUFFER_LENGTH - last.len)
        /\ wire[last.i2c].bufLen = last.len + last.ret
        /\ wire[last.i2c].bufLen <= WIRE_BUFFER_LENGTH
        /\ wire[last.i2c].buf = last.buf \o SubSeq(last.data, 1, last.ret)

\* An array write that did not fit a partly filled buffer and was cut short.
C8_Witness ==
    /\ last.op = "write"
    /\ last.len > 0
    /\ 0 < last.ret /\ last.ret < Len(last.data)

\* What the reads and the peek since a requestFrom returned must be, the
\* request having stored `n` bytes.
ReadsFollow(n) ==
    /\ \A k \in 1..Len(last.reads) :
          last.reads[k] = IF k <= n THEN last.data[k] ELSE -1
    /\ last.peek # <<>> =>
          last.peek[1] = IF Len(last.reads) < n THEN last.data[Len(last.reads) + 1] ELSE -1
    /\ wire[last.i2c].bufPos = MIN(Len(last.reads), n)
    /\ wire[last.i2c].bufLen = n

C10_CursorLengthCapacity ==
    \A i \in Insts :
        /\ 0 <= wire[i].bufPos
        /\ wire[i].bufPos <= wire[i].bufLen
        /\ wire[i].bufLen <= WIRE_BUFFER_LENGTH

\* A slave whose buffer was filled to capacity by a transfer longer than the
\* capacity, the excess dropped.
C10_Witness ==
    /\ last.op = "irq"
    /\ wire[last.i2c].mode = Slave
    /\ wire[last.i2c].bufLen = WIRE_BUFFER_LENGTH
    /\ bus[last.i2c].n > WIRE_BUFFER_LENGTH
    /\ hw[last.i2c].rx = <<>>

\* C11: i2c_slave_deinit on a core whose context is unbound fails its hard
\* assertion and changes nothing; on a bound context it succeeds and resets
\* i2c, handler and transfer_in_progress to the unbound state (the interrupt
\* line disabled, slave mode off). So in bind, unbind, unbind the second
\* unbind fails.
C11_UnbindUnbound ==
    (last.op \in {"begin", "beginSlave"} /\ last.mode # Unassigned) =>
        IF last.bound = NULL
        THEN /\ fault = "i2c_slave_deinit: i2c == NULL"
             /\ slave[last.core] = NoSlave
             /\ wire[last.i2c].mode = last.mode
        ELSE /\ fault = "none"
             /\ last.op = "begin" =>
                   /\ slave[last.core] = NoSlave
                   /\ last.bound \notin irq[last.core]
                   /\ ~hw[last.bound].slave_mode

\* begin(address), begin(), begin() on one core: the second begin() unbinds
\* again, right after the unbind that succeeded, and aborts.
C11_Witness ==
    /\ last.op = "begin"
    /\ last.afterUnbind
    /\ last.bound = NULL
    /\ fault = "i2c_slave_deinit: i2c == NULL"

\* C12: a slave-mode write, the peer reading, terminates; it writes every
\* byte of the array to the transmit FIFO once and in order, never with the
\* FIFO full, and returns size, for sizes beyond the buffer capacity too.
C12_SlaveWriteBlocks ==
    /\ [](/\ Len(hw[Port].tx) <= TxDepth
          /\ wr.pushed = SubSeq(wr.data, 1, wr.n)
          /\ last.op = "writeSlaveDone" =>
                last.pushed = last.data /\ last.ret = Len(last.data))
    /\ ((wr # Idle /\ bus[Port].active) ~> (wr = Idle))

\* A write of more bytes than the buffer holds, and than the FIFO holds, has
\* returned.
C12_Witness ==
    /\ last.op = "writeSlaveDone"
    /\ Len(last.data) > WIRE_BUFFER_LENGTH
    /\ Len(last.data) > TxDepth
    /\ last.ret = Len(last.data)

Prefix(seq, n) == SubSeq(seq, 1, MIN(Len(seq), n))

Buffered(i2c) == SubSeq(wire[i2c].buf, 1, wire[i2c].bufLen)

\* Bytes as they came off the bus, none left out: next in the same transfer,
\* or the first of a later one.
InArrivalOrder(buf) ==
    \A j \in 1..(Len(buf) - 1) :
        \/ buf[j + 1] = buf[j] + 1
        \/ XferOf(buf[j + 1]) > XferOf(buf[j]) /\ buf[j + 1] = BusByte(XferOf(buf[j + 1]), 1)

C15_ClosesTransmission ==
    (last.op = "endTransmission" /\ fault = "none") =>
        /\ wire[last.i2c].txAddress = NO_ADDRESS
        /\ wire[last.i2c].mode = Master
        /\ last.address # NO_ADDRESS
        /\ last.whole =>
              /\ last.sent = last.accepted
              /\ last.address = last.target

\* A transmission of as many bytes as the buffer holds, accepted by more than
\* one write, whose bulk write was cut short by a NACK.
C15_Witness ==
    /\ last.op = "endTransmission" /\ fault = "none"
    /\ last.whole
    /\ Len(last.accepted) = WIRE_BUFFER_LENGTH
    /\ 0 <= last.result /\ last.result < last.len
    /\ wire[last.i2c].txAddress = NO_ADDRESS

\* C16: a pass that raises FINISH calls the receive handler if and only if
\* the buffer holds at least one byte and a handler is registered: once, with
\* count = length (1..capacity) and the buffered bytes readable from cursor 0
\* in arrival order; after the event length = 0 and cursor = 0 (a RECEIVE
\* later in the pass starts from the empty buffer). With nothing buffered no
\* handler is called and the buffer and cursor stay as they are.
C16_FinishDelivers ==
    (last.op = "irq" /\ fault = "none" /\ Count(last.ev, I2C_SLAVE_FINISH) = 1) =>
        /\ Len(last.rcv) =
              (IF last.buf # <<>> /\ wire[last.i2c].receiveHandler # NULL THEN 1 ELSE 0)
        /\ \A k \in 1..Len(last.rcv) :
              /\ last.rcv[k].count = Len(last.buf)
              /\ last.rcv[k].count \in 1..WIRE_BUFFER_LENGTH
              /\ SubSeq(last.rcv[k].buf, 1, last.rcv[k].count) = last.buf
        /\ wire[last.i2c].bufPos = 0
        /\ Buffered(last.i2c) =
              (IF RX_FULL \in last.stat THEN Prefix(last.rx, WIRE_BUFFER_LENGTH) ELSE <<>>)

\* A FINISH that found the buffer full and handed it to the receive handler,
\* nothing received in the same pass.
C16_Witness ==
    /\ last.op = "irq" /\ fault = "none"
    /\ Count(last.ev, I2C_SLAVE_FINISH) = 1
    /\ RX_FULL \notin last.stat
    /\ Len(last.rcv) = 1
    /\ last.rcv[1].count = WIRE_BUFFER_LENGTH
    /\ wire[last.i2c].bufLen = 0

\* C17: every REQUEST the service routine raises passes the entry assertions
\* of handleEvent (bufPos_ == 0, bufLen_ == 0), in passes with RX_FULL and
\* RD_REQ asserted together too.
C17_RequestFindsEmpty ==
    (/\ last.op = "irq"
     /\ last.ev # <<>>
     /\ last.ev[Len(last.ev)].event = I2C_SLAVE_REQUEST)
    => fault = "none"

Rank(event) ==
    IF event = I2C_SLAVE_FINISH THEN 1 ELSE IF event = I2C_SLAVE_RECEIVE THEN 2 ELSE 3

\* C18: in one pass the events are raised in the order FINISH, RECEIVE,
\* REQUEST, each at most once; RECEIVE is raised exactly for RX_FULL and
\* REQUEST exactly for RD_REQ; when the pass returns, every one of TX_ABRT,
\* START_DET, STOP_DET and RD_REQ it found asserted is cleared, and
\* transfer_in_progress is true if it found RX_FULL or RD_REQ; RD_REQ is
\* cleared only after the handler returned (not if the handler aborted).
C18_FixedOrder ==
    last.op = "irq" =>
        /\ \A j, k \in 1..Len(last.ev) :
              j < k => Rank(last.ev[j].event) < Rank(last.ev[k].event)
        /\ fault = "none" =>
              /\ hw[last.i2c].raw \cap last.stat = {}
              /\ Count(last.ev, I2C_SLAVE_RECEIVE) = (IF RX_FULL \in last.stat THEN 1 ELSE 0)
              /\ Count(last.ev, I2C_SLAVE_REQUEST) = (IF RD_REQ \in last.stat THEN 1 ELSE 0)
              /\ last.stat \cap {RX_FULL, RD_REQ} # {} =>
                    slave[last.core].transfer_in_progress
        /\ (/\ fault # "none"
            /\ last.ev # <<>>
            /\ last.ev[Len(last.ev)].event = I2C_SLAVE_REQUEST) =>
              RD_REQ \in hw[last.i2c].raw

\* A pass that found all five conditions asserted with a transfer in
\* progress and raised FINISH, RECEIVE and REQUEST.
C18_Witness ==
    /\ last.op = "irq"
    /\ last.stat = SlaveIntrMask
    /\ last.tip
    /\ Len(last.ev) = 3

\* C19: whatever the application calls in Slave mode between the passes,
\* every event raised passes the entry assertions of handleEvent,
\* mode_ == Slave and bufPos_ == 0.
C19_NoInterference ==
    last.op = "irq" =>
        fault \notin {"handleEvent: mode_ == Slave", "handleEvent: bufPos_ == 0"}

\* C20: while a transmission is open (txAddress_ is not NO_ADDRESS) the port
\* is in Master mode and the cursor is 0, so assert(bufPos_ == 0) in
\* endTransmission never fails.
C20_OpenTransmission ==
    /\ \A i \in Insts :
          wire[i].txAddress # NO_ADDRESS => wire[i].mode = Master /\ wire[i].bufPos = 0
    /\ fault # "endTransmission: bufPos_ == 0"

\* A transmission begun with the cursor advanced by reads after a
\* requestFrom.
C20_Witness ==
    /\ last.op = "beginTransmission"
    /\ last.pos > 0
    /\ wire[last.i2c].txAddress # NO_ADDRESS
    /\ wire[last.i2c].bufPos = 0

\* C21: of the events a core's handler is given from a bind on, no FINISH is
\* the first and no FINISH follows a FINISH directly; transfer_in_progress is
\* true exactly when the last event given since the bind was RECEIVE or
\* REQUEST.
C21_FinishFollowsTransfer ==
    /\ last.op = "irq" =>
          LET seq == <<[event |-> last.before]>> \o last.ev
          IN \A k \in 1..(Len(seq) - 1) :
                seq[k + 1].event = I2C_SLAVE_FINISH =>
                    seq[k].event \in {I2C_SLAVE_RECEIVE, I2C_SLAVE_REQUEST}
    /\ fault = "none" =>
          \A c \in Cores :
              slave[c].i2c # NULL =>
                  (slave[c].transfer_in_progress
                      <=> delivered[c] \in {I2C_SLAVE_RECEIVE, I2C_SLAVE_REQUEST})

====
